---- MODULE Spec2Model ----
(***************************************************************************)
(* Model of the `terminated` crate: NulTerminatedStr, its fallible and     *)
(* unchecked constructors, its projections and formatters, and the ntstr!  *)
(* literal macro in both of its build configurations.                      *)
(*                                                                         *)
(* A `str` is modelled as its UTF8 byte sequence.  Indices of the source   *)
(* are zero-based; TLA+ sequences are one-based, so byte i of the source   *)
(* is s[i + 1] here.                                                       *)
(***************************************************************************)
EXTENDS Integers, Sequences, FiniteSets, TLC

\* ---- bounds of the model ------------------------------------------------
MaxLen == 3        \* longest runtime input, in chars
MaxLitLen == 2     \* longest string literal handed to ntstr!, in source items
UsizeBits == 6     \* width of usize in the model

\* ---- chars, bytes and str -----------------------------------------------
NUL == 0

\* code points used to build inputs: NUL, 'a' and a two-byte char
Chars == {NUL, 97, 233}

SeqsUpTo(S, n) == UNION {[1..k -> S] : k \in 0..n}

\* UTF8 encoding of one code point below 0x800
encode_utf8(c) ==
    IF c < 128 THEN <<c>>
    ELSE <<192 + (c \div 64), 128 + (c % 64)>>

\* the bytes of the str made of the chars cs
RECURSIVE to_str(_)
to_str(cs) ==
    IF cs = <<>> THEN <<>>
    ELSE encode_utf8(Head(cs)) \o to_str(Tail(cs))

Strs == {to_str(cs) : cs \in SeqsUpTo(Chars, MaxLen)}

\* ---- usize arithmetic -----------------------------------------------------
VARIABLES
    terminated_unstable,  \* cfg(terminated_unstable) of the build
    overflow_checks,      \* whether integer overflow panics in this build
    s,                    \* argument of the last from_str_with_nul call
    res,                  \* its result
    v,                    \* the NulTerminatedStr the caller holds
    origin,               \* which constructor produced v
    op,                   \* last accessor applied to v
    ret,                  \* what that accessor returned or wrote
    rt,                   \* outcome of the last round trip
    arg,                  \* tokens of the last ntstr! invocation
    build                 \* outcome of that invocation

vars == <<terminated_unstable, overflow_checks, s, res, v, origin, op, ret,
          rt, arg, build>>

\* a - b on usize: panics when overflow checks are on, wraps otherwise
usize_sub(a, b) ==
    IF a >= b THEN [panic |-> FALSE, val |-> a - b]
    ELSE IF overflow_checks THEN [panic |-> TRUE, val |-> 0]
    ELSE [panic |-> FALSE, val |-> a - b + 2 ^ UsizeBits]

\* ---- NulError and Result ------------------------------------------------
NoRes == [tag |-> "none", pos |-> 0, val |-> <<>>]
Ok(x) == [tag |-> "Ok", pos |-> 0, val |-> x]
InteriorNul(p) == [tag |-> "InteriorNul", pos |-> p, val |-> <<>>]
NotNulTerminated == [tag |-> "NotNulTerminated", pos |-> 0, val |-> <<>>]
Panic == [tag |-> "panic", pos |-> 0, val |-> <<>>]

\* ---- from_str_with_nul --------------------------------------------------
\* variant: position_from giving the length, not None, when no byte matches
RECURSIVE position_from_end(_, _)
position_from_end(str, i) ==
    IF i >= Len(str) THEN [some |-> TRUE, val |-> Len(str)]
    ELSE IF str[i + 1] = NUL THEN [some |-> TRUE, val |-> i]
    ELSE position_from_end(str, i + 1)

\* s.bytes().position(|b| b == 0), scanning from byte i
RECURSIVE position_from(_, _)
position_from(str, i) ==
    IF i >= Len(str) THEN [some |-> FALSE, val |-> 0]
    ELSE IF str[i + 1] = NUL THEN [some |-> TRUE, val |-> i]
    ELSE position_from(str, i + 1)

\* variant: rposition, the index of the last NUL
position_last(str) ==
    IF \A i \in 1..Len(str) : str[i] # NUL THEN [some |-> FALSE, val |-> 0]
    ELSE [some |-> TRUE,
          val |-> (CHOOSE i \in 1..Len(str) :
                      str[i] = NUL /\ \A j \in (i + 1)..Len(str) : str[j] # NUL)
                  - 1]

position(str) == position_from(str, 0)

\* variant: accepts any str whose last byte is NUL
from_str_with_nul_ends_with(str) ==
    LET nul_pos == position(str) IN
    IF ~nul_pos.some THEN NotNulTerminated
    ELSE IF str[Len(str)] = NUL THEN Ok(str)
    ELSE InteriorNul(nul_pos.val)

\* variant: s.len() - 1 evaluated before the search
from_str_with_nul_eager(str) ==
    LET last == usize_sub(Len(str), 1)
        nul_pos == position(str)
    IN IF last.panic THEN Panic
       ELSE IF ~nul_pos.some THEN NotNulTerminated
       ELSE IF nul_pos.val = last.val THEN Ok(str)
       ELSE InteriorNul(nul_pos.val)

from_str_with_nul(str) ==
    LET nul_pos == position(str) IN
    IF ~nul_pos.some THEN NotNulTerminated
    ELSE LET i == nul_pos.val
             last == usize_sub(Len(str), 1)
         IN IF last.panic THEN Panic
            ELSE IF i = last.val THEN Ok(str)
            ELSE InteriorNul(i)

from_str_with_nul_unchecked(str) == str

\* variant: returns the content without the terminator
as_str_with_nul_trimmed(self) == SubSeq(self, 1, Len(self) - 1)

as_str_with_nul(self) == self

\* ---- projections --------------------------------------------------------
NoValue == [live |-> FALSE, bytes |-> <<>>]
Value(b) == [live |-> TRUE, bytes |-> b]

NoRet == [tag |-> "none", val |-> <<>>]
Returned(x) == [tag |-> "ok", val |-> x]
Panicked == [tag |-> "panic", val |-> <<>>]

\* str::is_char_boundary: a continuation byte (0b10xxxxxx) starts no char
is_char_boundary(str, idx) ==
    \/ idx = 0
    \/ idx = Len(str)
    \/ idx < Len(str) /\ str[idx + 1] \notin 128..191

\* &str[..end] panics out of range or off a char boundary
slice_to(str, end) ==
    IF end > Len(str) \/ ~is_char_boundary(str, end) THEN Panicked
    ELSE Returned(SubSeq(str, 1, end))

\* variant: &self.0[..], the terminator kept
deref_whole(self) == slice_to(self, Len(self))

deref(self) ==
    LET end == usize_sub(Len(self), 1) IN
    IF end.panic THEN Panicked ELSE slice_to(self, end.val)

as_ref(self) == deref(self)

\* variant: formats as_str_with_nul, as Debug does
Display_fmt_with_nul(self) == Returned(as_str_with_nul(self))

\* fmt::Display for str writes the str as it is
Display_fmt(self) == deref(self)

\* char::escape_debug on the bytes of the model's chars
RECURSIVE escape_debug(_)
escape_debug(str) ==
    IF str = <<>> THEN <<>>
    ELSE (IF Head(str) = NUL THEN <<92, 48>> ELSE <<Head(str)>>)
         \o escape_debug(Tail(str))

\* fmt::Debug for str writes the escaped str between double quotes
Debug_fmt(self) == Returned(<<34>> \o escape_debug(as_str_with_nul(self)) \o <<34>>)

\* ---- ntstr! -------------------------------------------------------------
\* an item of a literal's source text: a char written plainly or as an escape
SrcItems == {[esc |-> FALSE, ch |-> 97], [esc |-> FALSE, ch |-> 233],
             [esc |-> TRUE, ch |-> NUL], [esc |-> TRUE, ch |-> 97]}

StrLit(src) == [kind |-> "str", src |-> src]
IntLit == [kind |-> "int", src |-> <<[esc |-> FALSE, ch |-> 49]>>]
Ident == [kind |-> "ident", src |-> <<[esc |-> FALSE, ch |-> 97]>>]
Plus == [kind |-> "punct", src |-> <<[esc |-> FALSE, ch |-> 43]>>]
Comma == [kind |-> "punct", src |-> <<[esc |-> FALSE, ch |-> 44]>>]

StrLits == {StrLit(l) : l \in SeqsUpTo(SrcItems, MaxLitLen)}
ShortLits == {StrLit(l) : l \in SeqsUpTo(SrcItems, 1)}

\* the token sequences written between the parentheses of ntstr!( ... )
Args ==
    {<<>>}
    \cup {<<t>> : t \in StrLits \cup {IntLit, Ident}}
    \cup {<<a, Plus, b>> : a, b \in {IntLit, Ident}}
    \cup {<<a, Comma, b>> : a, b \in ShortLits \cup {IntLit}}
    \cup {<<a, b>> : a, b \in ShortLits}

IsAtom(t) == t.kind \in {"str", "int", "ident"}

\* whether the tokens are exactly one expression, as $e:expr requires
is_expr(tokens) ==
    \/ Len(tokens) = 1 /\ IsAtom(tokens[1])
    \/ Len(tokens) = 3 /\ IsAtom(tokens[1]) /\ tokens[2] = Plus
                       /\ IsAtom(tokens[3])

\* the chars a literal token denotes
literal_value(tok) == [i \in 1..Len(tok.src) |-> tok.src[i].ch]

BuildError == [kind |-> "build_error", val |-> <<>>, res |-> NoRes]
RuntimePanic(r) == [kind |-> "panic", val |-> <<>>, res |-> r]
Built(x, r) == [kind |-> "value", val |-> x, res |-> r]
NoBuild == [kind |-> "none", val |-> <<>>, res |-> NoRes]

\* concat!(e, "\0") takes literals only
concat_nul(tokens) ==
    IF Len(tokens) = 1 /\ tokens[1].kind \in {"str", "int"}
    THEN [ok |-> TRUE, val |-> to_str(Append(literal_value(tokens[1]), NUL))]
    ELSE [ok |-> FALSE, val |-> <<>>]

ntstr_impl_stable(tokens) ==
    LET c == concat_nul(tokens) IN
    IF ~c.ok THEN BuildError
    ELSE LET r == from_str_with_nul(c.val) IN
         IF r.tag = "Ok" THEN Built(r.val, r) ELSE RuntimePanic(r)

\* macros::literal: the group holds exactly one token, a literal
literal(group) ==
    IF Len(group) = 1 /\ group[1].kind \in {"str", "int"}
    THEN [some |-> TRUE, val |-> group[1]]
    ELSE [some |-> FALSE, val |-> IntLit]

\* syn's parse::string on the literal's text
parse_string(lit) ==
    IF lit.kind = "str" THEN [done |-> TRUE, value |-> literal_value(lit)]
    ELSE [done |-> FALSE, value |-> <<>>]

\* Literal::string: the value written back as source text
Literal_string(value) ==
    StrLit([i \in 1..Len(value) |->
              [esc |-> (value[i] < 32 \/ value[i] >= 128), ch |-> value[i]]])

ProcPanic == [panic |-> TRUE, tok |-> IntLit]

\* variant: no check for NUL in the literal
macros_ntstr_unchecked(group) ==
    LET lit == literal(group) IN
    IF ~lit.some THEN ProcPanic
    ELSE LET p == parse_string(lit.val) IN
         IF ~p.done THEN ProcPanic
         ELSE [panic |-> FALSE, tok |-> Literal_string(Append(p.value, NUL))]

\* variant: no terminator pushed
macros_ntstr_no_push(group) ==
    LET lit == literal(group) IN
    IF ~lit.some THEN ProcPanic
    ELSE LET p == parse_string(lit.val) IN
         IF ~p.done THEN ProcPanic
         ELSE IF \E i \in 1..Len(p.value) : p.value[i] = NUL THEN ProcPanic
         ELSE [panic |-> FALSE, tok |-> Literal_string(p.value)]

macros_ntstr(group) ==
    LET lit == literal(group) IN
    IF ~lit.some THEN ProcPanic
    ELSE LET p == parse_string(lit.val) IN
         IF ~p.done THEN ProcPanic
         ELSE IF \E i \in 1..Len(p.value) : p.value[i] = NUL THEN ProcPanic
         ELSE [panic |-> FALSE, tok |-> Literal_string(Append(p.value, NUL))]

ntstr_impl_unstable(tokens) ==
    LET t == macros_ntstr(tokens) IN
    IF t.panic THEN BuildError
    ELSE Built(from_str_with_nul_unchecked(to_str(literal_value(t.tok))), NoRes)

ntstr(tokens) ==
    IF ~is_expr(tokens) THEN BuildError
    ELSE IF terminated_unstable THEN ntstr_impl_unstable(tokens)
    ELSE ntstr_impl_stable(tokens)

\* ---- the state machine ----------------------------------------------------
\* a panic ends the program
panicked == res.tag = "panic" \/ ret.tag = "panic" \/ rt.tag = "panic"
            \/ build.kind = "panic"

Init ==
    /\ terminated_unstable \in BOOLEAN
    /\ overflow_checks \in BOOLEAN
    /\ s = <<>>
    /\ res = NoRes
    /\ v = NoValue
    /\ origin = "none"
    /\ op = "none"
    /\ ret = NoRet
    /\ rt = NoRes
    /\ arg = <<>>
    /\ build = NoBuild

Call_from_str_with_nul ==
    /\ ~panicked
    /\ \E input \in Strs :
        LET r == from_str_with_nul(input) IN
        /\ s' = input
        /\ res' = r
        /\ v' = IF r.tag = "Ok" THEN Value(r.val) ELSE NoValue
        /\ origin' = IF r.tag = "Ok" THEN "from_str_with_nul" ELSE "none"
    /\ op' = "none"
    /\ ret' = NoRet
    /\ rt' = NoRes
    /\ arg' = <<>>
    /\ build' = NoBuild
    /\ UNCHANGED <<terminated_unstable, overflow_checks>>

Call_from_str_with_nul_unchecked ==
    /\ ~panicked
    /\ \E input \in Strs :
        /\ s' = input
        /\ v' = Value(from_str_with_nul_unchecked(input))
    /\ res' = NoRes
    /\ origin' = "from_str_with_nul_unchecked"
    /\ op' = "none"
    /\ ret' = NoRet
    /\ rt' = NoRes
    /\ arg' = <<>>
    /\ build' = NoBuild
    /\ UNCHANGED <<terminated_unstable, overflow_checks>>

Accessor(name, result) ==
    /\ ~panicked
    /\ v.live
    /\ op' = name
    /\ ret' = result
    /\ UNCHANGED <<terminated_unstable, overflow_checks, s, res, v, origin,
                   rt, arg, build>>

Call_as_str_with_nul == Accessor("as_str_with_nul", Returned(as_str_with_nul(v.bytes)))

Call_deref == Accessor("deref", deref(v.bytes))

Call_as_ref == Accessor("as_ref", as_ref(v.bytes))

Call_Display_fmt == Accessor("Display", Display_fmt(v.bytes))

Call_Debug_fmt == Accessor("Debug", Debug_fmt(v.bytes))

\* deref, append a NUL, validate again
RoundTrip ==
    /\ ~panicked
    /\ v.live
    /\ LET d == deref(v.bytes) IN
       rt' = IF d.tag = "panic" THEN Panic
             ELSE from_str_with_nul(Append(d.val, NUL))
    /\ op' = "round_trip"
    /\ ret' = NoRet
    /\ UNCHANGED <<terminated_unstable, overflow_checks, s, res, v, origin,
                   arg, build>>

Expand_ntstr ==
    /\ ~panicked
    /\ \E tokens \in Args :
        LET b == ntstr(tokens) IN
        /\ arg' = tokens
        /\ build' = b
        /\ v' = IF b.kind = "value" THEN Value(b.val) ELSE NoValue
        /\ origin' = IF b.kind = "value" THEN "ntstr" ELSE "none"
    /\ s' = <<>>
    /\ res' = NoRes
    /\ op' = "none"
    /\ ret' = NoRet
    /\ rt' = NoRes
    /\ UNCHANGED <<terminated_unstable, overflow_checks>>

Next ==
    \/ Call_from_str_with_nul
    \/ Call_from_str_with_nul_unchecked
    \/ Call_as_str_with_nul
    \/ Call_deref
    \/ Call_as_ref
    \/ Call_Display_fmt
    \/ Call_Debug_fmt
    \/ RoundTrip
    \/ Expand_ntstr

Spec == Init /\ [][Next]_vars

\* ---- properties -----------------------------------------------------------
NulFree(str) == \A i \in 1..Len(str) : str[i] # NUL

\* the terminated-string invariant: one NUL, in the last byte
Terminated(str) ==
    /\ Len(str) >= 1
    /\ str[Len(str)] = NUL
    /\ \A i \in 1..(Len(str) - 1) : str[i] # NUL

\* a NUL at some zero-based index below len - 1
HasInteriorNul(str) == \E i \in 0..(Len(str) - 2) : str[i + 1] = NUL

\* zero-based index of the first NUL of a str that has one
FirstNul(str) ==
    CHOOSE i \in 0..(Len(str) - 1) :
        str[i + 1] = NUL /\ \A j \in 0..(i - 1) : str[j + 1] # NUL

Front(str) == SubSeq(str, 1, Len(str) - 1)

Validated == res.tag # "none"
Expanded == build.kind # "none"
TextOps == {"deref", "as_ref", "Display"}

IsStrLit(tokens) == Len(tokens) = 1 /\ tokens[1].kind = "str"
LitChars(tokens) == literal_value(tokens[1])

\* C1: a value obtained from a successful from_str_with_nul or from ntstr!
\* has, in every state in which it is held, backing bytes of length >= 1
\* whose last byte is NUL and whose earlier bytes are not.
C1_SafeValuesTerminated ==
    (v.live /\ origin \in {"from_str_with_nul", "ntstr"})
        => Terminated(as_str_with_nul(v.bytes))

C1_Witness ==
    /\ v.live
    /\ origin = "ntstr"
    /\ op = "as_str_with_nul"
    /\ Len(ret.val) >= 3

\* C2: when the input has a NUL below its last index, from_str_with_nul
\* returns InteriorNul of the index of the first NUL, whatever follows it.
C2_InteriorNulFirst ==
    (Validated /\ HasInteriorNul(s)) => res = InteriorNul(FirstNul(s))

C2_Witness ==
    /\ res.tag = "InteriorNul"
    /\ res.pos >= 1
    /\ s[Len(s)] = NUL

\* C3: from_str_with_nul returns NotNulTerminated for every input without a
\* NUL, the empty one included, and for no other input.
C3_NotNulTerminatedIffNoNul ==
    Validated => (res = NotNulTerminated <=> NulFree(s))

C3_Witness ==
    /\ res.tag = "NotNulTerminated"
    /\ s = <<>>

\* C4: from_str_with_nul succeeds exactly on the inputs that are terminated;
\* on success as_str_with_nul returns the input as it was and deref returns
\* the input without its last byte.
C4_OkIffTerminated ==
    /\ Validated => (res.tag = "Ok" <=> Terminated(s))
    /\ (Validated /\ res.tag = "Ok") =>
          /\ v = Value(s)
          /\ op = "as_str_with_nul" => ret = Returned(s)
          /\ op = "deref" => (ret = Returned(Front(s))
                              /\ Len(ret.val) = Len(s) - 1)

C4_Witness ==
    /\ res.tag = "Ok"
    /\ op = "deref"
    /\ Len(ret.val) >= 2

\* C5: deref of a validated value, followed by a NUL and validated again,
\* is accepted and has the bytes of the value it came from.
C5_RoundTrip ==
    (origin = "from_str_with_nul" /\ op = "round_trip")
        => (rt.tag = "Ok"
            /\ as_str_with_nul(rt.val) = as_str_with_nul(v.bytes))

C5_Witness ==
    /\ origin = "from_str_with_nul"
    /\ op = "round_trip"
    /\ Len(v.bytes) >= 3

C7_LiteralValue ==
    (Expanded /\ IsStrLit(arg) /\ NulFree(LitChars(arg)))
        => /\ build.kind = "value"
           /\ v.live
           /\ as_str_with_nul(v.bytes) = to_str(LitChars(arg)) \o <<NUL>>
           /\ op = "deref" => ret = Returned(to_str(LitChars(arg)))
           /\ ntstr_impl_stable(arg).kind = "value"
           /\ ntstr_impl_unstable(arg).kind = "value"
           /\ ntstr_impl_stable(arg).val = ntstr_impl_unstable(arg).val

C7_Witness ==
    /\ origin = "ntstr"
    /\ IsStrLit(arg)
    /\ op = "deref"
    /\ Len(ret.val) >= 2

\* C8: an argument that is not a single string literal fails the build in
\* both configurations of ntstr!.
C8_NonStringFailsBuild ==
    (Expanded /\ ~IsStrLit(arg)) => build.kind = "build_error"

\* C9: on a terminated value, deref, as_ref and Display all give the bytes of
\* as_str_with_nul without the last one, and no NUL is among them.
C9_TextViewsHideNul ==
    (v.live /\ Terminated(v.bytes) /\ op \in TextOps)
        => /\ ret = Returned(Front(as_str_with_nul(v.bytes)))
           /\ NulFree(ret.val)

C9_Witness ==
    /\ v.live
    /\ Terminated(v.bytes)
    /\ op = "Display"
    /\ Len(ret.val) >= 2

\* C10: from_str_with_nul returns Ok, InteriorNul(p) with p < len - 1, or
\* NotNulTerminated and never panics, its subtraction never underflowing;
\* deref of a value it returned does not panic either.
C10_NoPanic ==
    /\ res.tag \in {"none", "Ok", "InteriorNul", "NotNulTerminated"}
    /\ build.res.tag \in {"none", "Ok", "InteriorNul", "NotNulTerminated"}
    /\ res.tag = "InteriorNul" => res.pos < Len(s) - 1
    /\ (origin = "from_str_with_nul" /\ op \in TextOps) => ret.tag = "ok"
    /\ origin = "from_str_with_nul" => rt.tag # "panic"

C10_Witness ==
    /\ overflow_checks
    /\ origin = "from_str_with_nul"
    /\ op = "deref"
    /\ ret = Returned(<<>>)
====
